---- MODULE Spec2Model ----
(***************************************************************************)
(* The Mean operation of the TFLite GPU (OpenCL) delegate:                 *)
(* tensorflow/lite/delegates/gpu/cl/kernels/mean.cc.                       *)
(*                                                                         *)
(* Host side: the constructor picks a workgroup per device family and      *)
(* emits the kernel, BindArguments sets the two normalisers, GetGridSize   *)
(* gives the NDRange.  Device side: the emitted kernel is kept as a list   *)
(* of instructions (the literals the emitter bakes in are fields of the    *)
(* instructions) and is executed by the lanes of a workgroup, scheduled in *)
(* NumGroups lock-step groups that interleave freely between barriers.     *)
(*                                                                         *)
(* Values are exact rationals <<numerator, denominator>> (one component of *)
(* the float4 vectors: the four components are treated alike by every      *)
(* statement of the kernel).  <<0, 0>> stands for a value that is not a    *)
(* number (a division by zero, or local memory read before it is written). *)
(***************************************************************************)
EXTENDS Integers, Sequences, FiniteSets, TLC

\* ------------------------------------------------------------------ bounds
\* number of lock-step groups the lanes of a workgroup are scheduled in
NumGroups == 2
\* largest Slices and largest Batch of a bound tensor
MaxSlices == 2

MaxBatch == 2
\* extents 1..MaxSmall are tried, besides the workgroup's and one past it
MaxSmall == 1
\* largest wx and wy of a workgroup handed to the emitter on its own
MaxWorkGroupDim == 16
\* most workgroups a scheduler adds along z when it rounds the grid up
MaxExtraZ == 1

\* --------------------------------------------------------------- rationals
Abs(a) == IF a < 0 THEN -a ELSE a

RECURSIVE GCD(_, _)
GCD(a, b) == IF b = 0 THEN a ELSE GCD(b, a % b)

NaN == <<0, 0>>

IsNum(q) == q[2] # 0

Rat(n, d) ==
  IF d = 0 THEN NaN
  ELSE LET g == GCD(Abs(n), Abs(d))
           s == IF d < 0 THEN -1 ELSE 1
       IN <<s * (n \div g), Abs(d) \div g>>

FromInt(n) == <<n, 1>>

RAdd(p, q) ==
  IF ~IsNum(p) \/ ~IsNum(q) THEN NaN
  ELSE IF p[1] = 0 THEN q
  ELSE IF q[1] = 0 THEN p
  ELSE LET g == GCD(p[2], q[2])
       IN Rat(p[1] * (q[2] \div g) + q[1] * (p[2] \div g), (p[2] \div g) * q[2])

RMul(p, q) ==
  IF ~IsNum(p) \/ ~IsNum(q) THEN NaN
  ELSE IF p[1] = 0 \/ q[1] = 0 THEN <<0, 1>>
  ELSE LET a == Rat(p[1], q[2])
           b == Rat(q[1], p[2])
       IN Rat(a[1] * b[1], a[2] * b[2])

RDiv(p, q) ==
  IF ~IsNum(p) \/ ~IsNum(q) \/ q[1] = 0 THEN NaN
  ELSE RMul(p, Rat(q[2], q[1]))

\* ------------------------------------------------------------- DeviceInfo
\* The device descriptor the constructor reads: a vendor tag and, whatever
\* the vendor, an Adreno and a Mali generation record.
Vendors == {"Adreno", "Mali", "PowerVR", "Unknown"}

AdrenoGpus == {"3xx", "4xx", "6xx"}

MaliGpus == {"T6xx", "T7xx", "T8xx", "Bifrost"}

DeviceInfos == [vendor : Vendors, adreno_info : AdrenoGpus, mali_info : MaliGpus]

IsAdreno(device_info) == device_info.vendor = "Adreno"

IsMali(device_info) == device_info.vendor = "Mali"

IsAdreno3xx(adreno_info) == adreno_info = "3xx"

IsMaliT6xx(mali_info) == mali_info = "T6xx"

IsMaliT7xx(mali_info) == mali_info = "T7xx"

IsMaliT8xx(mali_info) == mali_info = "T8xx"

\* ------------------------------------------------------ Mean::Mean (planner)
int3(x, y, z) == [x |-> x, y |-> y, z |-> z]

\* mutants of the planner: the T8xx test forgotten; a workgroup of 18 lanes
PickWorkGroupSizeNoT8(device_info) ==
  IF IsMali(device_info)
  THEN IF IsMaliT6xx(device_info.mali_info) \/ IsMaliT7xx(device_info.mali_info)
       THEN int3(8, 4, 1)
       ELSE int3(8, 8, 1)
  ELSE IF IsAdreno(device_info) /\ IsAdreno3xx(device_info.adreno_info)
  THEN int3(16, 8, 1)
  ELSE int3(16, 16, 1)

PickWorkGroupSizeOdd(device_info) ==
  IF IsMali(device_info)
  THEN IF \/ IsMaliT6xx(device_info.mali_info)
          \/ IsMaliT7xx(device_info.mali_info)
          \/ IsMaliT8xx(device_info.mali_info)
       THEN int3(6, 3, 1)
       ELSE int3(8, 8, 1)
  ELSE IF IsAdreno(device_info) /\ IsAdreno3xx(device_info.adreno_info)
  THEN int3(16, 8, 1)
  ELSE int3(16, 16, 1)

\* the assignments of the constructor, in program order: the default, then
\* the Adreno branch, then the Mali branch
WorkGroupAfterAdreno(device_info) ==
  IF IsAdreno(device_info) /\ IsAdreno3xx(device_info.adreno_info)
  THEN int3(16, 8, 1)
  ELSE int3(16, 16, 1)

PickWorkGroupSize(device_info) ==
  IF IsMali(device_info)
  THEN IF \/ IsMaliT6xx(device_info.mali_info)
          \/ IsMaliT7xx(device_info.mali_info)
          \/ IsMaliT8xx(device_info.mali_info)
       THEN int3(8, 4, 1)
       ELSE int3(8, 8, 1)
  ELSE WorkGroupAfterAdreno(device_info)

\* --------------------------------------- Mean::GetMeanKernelCode (emitter)
\* The emitted kernel is a record: the literals baked into the source text
\* (accum's size, wg_x, wg_y, whether the batch split is emitted) and the
\* statements between the early exit and the end, one record a statement
\* group, the barriers included.

\* mutant of the emitter: line 109 forgotten, no barrier after a tree step
RECURSIVE TreeStepsNoBarrier(_, _)
TreeStepsNoBarrier(reminder, offset) ==
  IF reminder >= 8
  THEN << [op |-> "step", limit |-> reminder, mul |-> offset * 4,
           o1 |-> offset, o2 |-> offset * 2, o3 |-> offset * 3] >>
       \o TreeStepsNoBarrier(reminder \div 4, offset * 4)
  ELSE << >>

\* mutant of line 101: the loop going on while reminder >= 2
RECURSIVE TreeStepsWhile2(_, _)
TreeStepsWhile2(reminder, offset) ==
  IF reminder >= 2
  THEN << [op |-> "step", limit |-> reminder, mul |-> offset * 4,
           o1 |-> offset, o2 |-> offset * 2, o3 |-> offset * 3],
          [op |-> "barrier"] >>
       \o TreeStepsWhile2(reminder \div 4, offset * 4)
  ELSE << >>

\* mutant of line 103: t = local_id * (offset * 2)
RECURSIVE TreeStepsHalfStride(_, _)
TreeStepsHalfStride(reminder, offset) ==
  IF reminder >= 8
  THEN << [op |-> "step", limit |-> reminder, mul |-> offset * 2,
           o1 |-> offset, o2 |-> offset * 2, o3 |-> offset * 3],
          [op |-> "barrier"] >>
       \o TreeStepsHalfStride(reminder \div 4, offset * 4)
  ELSE << >>

\* one iteration of the loop of lines 101-110 and the iterations after it
RECURSIVE TreeSteps(_, _)
TreeSteps(reminder, offset) ==
  IF reminder >= 8
  THEN << [op |-> "step", limit |-> reminder, mul |-> offset * 4,
           o1 |-> offset, o2 |-> offset * 2, o3 |-> offset * 3],
          [op |-> "barrier"] >>
       \o TreeSteps(reminder \div 4, offset * 4)
  ELSE << >>

\* <<reminder, offset>> when the loop of line 101 exits
RECURSIVE LoopExit(_, _)
LoopExit(reminder, offset) ==
  IF reminder >= 8 THEN LoopExit(reminder \div 4, offset * 4)
  ELSE <<reminder, offset>>

\* mutant of line 112: reminder not scaled back by 4 before the tail
TailInstrUnscaled(reminder, offset) ==
  [op |-> "tail", first |-> 0,
   rest |-> [i \in 1..(reminder - 1) |-> offset * i]]

\* mutant of line 113: i <= reminder, the tail reading one cell more
TailInstrOnePast(reminder, offset) ==
  [op |-> "tail", first |-> 0,
   rest |-> [i \in 1..(reminder * 4) |-> offset * i]]

\* lines 111-117: accum[0], then accum[offset * i] for 1 <= i < reminder * 4
TailInstr(reminder, offset) ==
  [op |-> "tail", first |-> 0,
   rest |-> [i \in 1..(reminder * 4 - 1) |-> offset * i]]

GetMeanKernelCode(op_def, work_group_size) ==
  LET total_size == work_group_size.x * work_group_size.y
      exit == LoopExit(total_size \div 4, 1)
  IN [accum_size |-> work_group_size.x * work_group_size.y,
      wg_x |-> work_group_size.x,
      wg_y |-> work_group_size.y,
      has_batch |-> op_def.dst_has_batch,
      body |-> << [op |-> "accumulate"], [op |-> "barrier"] >>
               \o TreeSteps(total_size \div 4, 1)
               \o << TailInstr(exit[1], exit[2]) >>]

\* ------------------------------------------------------------------ state
VARIABLES
  device,            \* the DeviceInfo a planner run constructs with, or None
  stage,             \* "new", "idle" (constructed, no dispatch in flight), "running"
  definition_,       \* the OperationDef kept by GPUOperation
  work_group_size_,  \* int3, set by the constructor
  code_,             \* the emitted kernel, set by the constructor
  args_,             \* the argument table: name -> value
  src_,              \* the bound source tensor (src_[0]), or None
  dst_,              \* the bound destination tensor (dst_[0]), or None
  bind_result,       \* what the last BindArguments returned, the writes it tried
                     \* and the table it found
  grid_size,         \* what the last GetGridSize returned, or None
  queue,             \* workgroup ids of the dispatch not yet started
  wg,                \* the workgroup in execution, or None
  dst_data,          \* the destination's cells: <<S, B>> -> value
  dst_log            \* who wrote each destination cell: <<S, B>> -> {[id, lane]}

hostvars == <<device, stage, definition_, work_group_size_, code_, args_, src_, dst_,
              bind_result, grid_size>>

vars == <<device, stage, definition_, work_group_size_, code_, args_, src_, dst_,
          bind_result, grid_size, queue, wg, dst_data, dst_log>>

None == << >>

OperationDefs == [dst_has_batch : BOOLEAN]

\* ---------------------------------------------------------------- tensors
\* src_tensor.Read<float>(x, y, s) of the batch bound by SetBatchRef(b):
\* the source's contents, a function of the coordinates
TensorRead(x, y, s, b) == 1 + ((x + 2 * y + 3 * s + 5 * b) % 7)

\* extents tried along an axis where the workgroup has w lanes: the small
\* ones, where most lanes sum no cell; w, where every lane sums one; and
\* w + 1, where lane 0 sums two
Extents(w) == (1..MaxSmall) \cup {w, w + 1}

SrcTensors(op_def, work_group_size) ==
  { [W |-> w, H |-> h, Slices |-> s, Batch |-> b] :
      w \in Extents(work_group_size.x), h \in Extents(work_group_size.y),
      s \in 1..MaxSlices, b \in 1..MaxBatch }

\* the tensors a dispatch can bind: shapes within the bounds, small in both
\* spatial axes or of the workgroup's size in both; a tensor without a batch
\* axis has Batch() = 1; the destination keeps the source's Slices and Batch
\* and is 1 x 1
BindableTensors(op_def, work_group_size) ==
  { t \in SrcTensors(op_def, work_group_size) :
      /\ ~op_def.dst_has_batch => t.Batch = 1
      /\ t.W <= MaxSmall <=> t.H <= MaxSmall }

DstTensorOf(t) == [W |-> 1, H |-> 1, Slices |-> t.Slices, Batch |-> t.Batch]

\* ----------------------------------------------------------- construction
Init ==
  /\ device = None
  /\ stage = "new"
  /\ definition_ = None
  /\ work_group_size_ = None
  /\ code_ = None
  /\ args_ = None
  /\ src_ = None
  /\ dst_ = None
  /\ bind_result = [status |-> "none", calls |-> << >>, rejected |-> {}, old |-> None]
  /\ grid_size = None
  /\ queue = << >>
  /\ wg = None
  /\ dst_data = << >>
  /\ dst_log = << >>

\* Mean::Mean: the workgroup, then the kernel (which registers the two
\* scalars in the argument table)
Construct(definition, device_info) ==
  /\ stage = "new"
  /\ stage' = "idle"
  /\ definition_' = definition
  /\ work_group_size_' = PickWorkGroupSize(device_info)
  /\ code_' = GetMeanKernelCode(definition, PickWorkGroupSize(device_info))
  /\ args_' = [inv_multiplier_1 |-> FromInt(0), inv_multiplier_2 |-> FromInt(0)]
  /\ UNCHANGED <<device, src_, dst_, bind_result, grid_size, queue, wg, dst_data,
                 dst_log>>

\* GPUOperation::SetSrc / SetDst: the framework binds the tensors of the
\* next dispatch
SetTensors ==
  /\ stage = "idle"
  /\ \E t \in BindableTensors(definition_, work_group_size_) :
       /\ src_' = t
       /\ dst_' = DstTensorOf(t)
  /\ bind_result' = [status |-> "none", calls |-> << >>, rejected |-> {},
                     old |-> None]
  /\ grid_size' = None
  /\ UNCHANGED <<device, stage, definition_, work_group_size_, code_, args_,
                 queue, wg, dst_data, dst_log>>

\* ---------------------------------------------------- Mean::BindArguments
\* ArgumentsBinder::SetFloat(name, value): the table takes the value, or
\* rejects the write and is left as it was
SetFloat(args, name, value, rejected) ==
  IF name \in rejected
  THEN [ok |-> FALSE, args |-> args]
  ELSE [ok |-> TRUE, args |-> [args EXCEPT ![name] = value]]

\* int * int of line 123, then the conversion to double
TotalSize(src) == FromInt(src.W * src.H)

Size0(work_group_size) == FromInt(work_group_size.x * work_group_size.y)

\* mutant of line 125: the quotient taken on integers
Size1Truncated(src, work_group_size) ==
  FromInt((src.W * src.H) \div (work_group_size.x * work_group_size.y))

Size1(src, work_group_size) == RDiv(TotalSize(src), Size0(work_group_size))

\* mutant of line 126: the quotient rounded up before the reciprocal
InvMultiplier1Ceil(src, work_group_size) ==
  Rat(1, ((src.W * src.H) + (work_group_size.x * work_group_size.y) - 1)
           \div (work_group_size.x * work_group_size.y))

InvMultiplier1(src, work_group_size) == RDiv(FromInt(1), Size1(src, work_group_size))

InvMultiplier2(work_group_size) == RDiv(FromInt(1), Size0(work_group_size))

\* mutant of lines 126-128: the status of the first write dropped
BindOutcomeNoEarlyReturn(args, src, work_group_size, rejected) ==
  LET r1 == SetFloat(args, "inv_multiplier_1",
                     InvMultiplier1(src, work_group_size), rejected)
      r2 == SetFloat(r1.args, "inv_multiplier_2",
                     InvMultiplier2(work_group_size), rejected)
  IN [status |-> IF r2.ok THEN "ok" ELSE "error", args |-> r2.args,
      calls |-> <<"inv_multiplier_1", "inv_multiplier_2">>]

\* mutant of lines 123-127: the scalars computed at the first call and kept
BindOutcomeCached(args, src, work_group_size, rejected) ==
  LET v1 == IF args.inv_multiplier_1 = FromInt(0)
            THEN InvMultiplier1(src, work_group_size)
            ELSE args.inv_multiplier_1
      r1 == SetFloat(args, "inv_multiplier_1", v1, rejected)
      r2 == SetFloat(r1.args, "inv_multiplier_2",
                     InvMultiplier2(work_group_size), rejected)
  IN IF ~r1.ok
     THEN [status |-> "error", args |-> r1.args, calls |-> <<"inv_multiplier_1">>]
     ELSE IF ~r2.ok
     THEN [status |-> "error", args |-> r2.args,
           calls |-> <<"inv_multiplier_1", "inv_multiplier_2">>]
     ELSE [status |-> "ok", args |-> r2.args,
           calls |-> <<"inv_multiplier_1", "inv_multiplier_2">>]

\* the outcome of BindArguments: status, the table, the writes attempted
BindOutcome(args, src, work_group_size, rejected) ==
  LET r1 == SetFloat(args, "inv_multiplier_1",
                     InvMultiplier1(src, work_group_size), rejected)
      r2 == SetFloat(r1.args, "inv_multiplier_2",
                     InvMultiplier2(work_group_size), rejected)
  IN IF ~r1.ok
     THEN [status |-> "error", args |-> r1.args, calls |-> <<"inv_multiplier_1">>]
     ELSE IF ~r2.ok
     THEN [status |-> "error", args |-> r2.args,
           calls |-> <<"inv_multiplier_1", "inv_multiplier_2">>]
     ELSE [status |-> "ok", args |-> r2.args,
           calls |-> <<"inv_multiplier_1", "inv_multiplier_2">>]

BindArguments(rejected) ==
  /\ stage = "idle"
  /\ src_ # None
  /\ LET out == BindOutcome(args_, src_, work_group_size_, rejected)
     IN /\ args_' = out.args
        /\ bind_result' = [status |-> out.status, calls |-> out.calls,
                           rejected |-> rejected, old |-> args_]
  /\ UNCHANGED <<device, stage, definition_, work_group_size_, code_, src_, dst_,
                 grid_size, queue, wg, dst_data, dst_log>>

\* ------------------------------------- line 123 on extents of any int value
\* Natural numbers that may exceed 32 bits are kept as limbs:
\* little-endian digits in base 2^10, no leading zero.
LimbBase == 2^10

RECURSIVE ToLimbs(_)
ToLimbs(n) == IF n = 0 THEN << >> ELSE << n % LimbBase >> \o ToLimbs(n \div LimbBase)

Limb(m, i) == IF i <= Len(m) THEN m[i] ELSE 0

\* the k-th column of the long multiplication of a by b, from a's i-th limb on
RECURSIVE ColumnSum(_, _, _, _)
ColumnSum(a, b, k, i) ==
  IF i > Len(a) THEN 0
  ELSE (IF (k + 1 - i) \in 1..Len(b) THEN a[i] * b[k + 1 - i] ELSE 0)
       + ColumnSum(a, b, k, i + 1)

RECURSIVE LongMulFrom(_, _, _, _)
LongMulFrom(a, b, k, carry) ==
  IF k > Len(a) + Len(b) THEN << >>
  ELSE LET t == ColumnSum(a, b, k, 1) + carry
           rest == LongMulFrom(a, b, k + 1, t \div LimbBase)
       IN IF rest = << >> /\ t % LimbBase = 0 THEN << >>
          ELSE << t % LimbBase >> \o rest

\* the product of two natural numbers, exactly
LongMul(a, b) == LongMulFrom(a, b, 1, 0)

\* the number is at most INT_MAX = 2^31 - 1
FitsInt(m) == Len(m) <= 3 \/ (Len(m) = 4 /\ m[4] < 2)

\* the low 32 bits of the number read as a two's complement int
Wrap32(m) ==
  LET low31 == Limb(m, 1) + Limb(m, 2) * 2^10 + Limb(m, 3) * 2^20
               + (Limb(m, 4) % 2) * 2^30
  IN IF (Limb(m, 4) \div 2) % 2 = 1 THEN (low31 - 2^30) - 2^30 ELSE low31

\* a value of total_size: an int converted to double, or a number wider
\* than an int
IntTotal(v) == [wide |-> FALSE, int |-> v, limbs |-> << >>]

WideTotal(m) == [wide |-> TRUE, int |-> 0, limbs |-> m]

\* Width() * Height() of line 123 is a product of two ints.  When the
\* product fits an int it is that int.  When it does not, the signed
\* overflow is undefined: the build may wrap it to 32 bits, or may keep the
\* full product in a wider register before the conversion to double.
TotalSizeOutcomes(src) ==
  LET exact == LongMul(ToLimbs(src.W), ToLimbs(src.H))
  IN IF FitsInt(exact) THEN {IntTotal(Wrap32(exact))}
     ELSE {IntTotal(Wrap32(exact)), WideTotal(exact)}

\* extents up to INT_MAX: small ones, the two around sqrt(2^31), 2^15, 2^16
\* and INT_MAX itself
WideExtents == {1, 3, 2^15, 46340, 46341, 2^16, (2^30 - 1) + 2^30}

\* the framework binds a source tensor of any extents an int can hold
SetWideTensors ==
  /\ stage = "idle"
  /\ \E w \in WideExtents, h \in WideExtents :
       /\ src_' = [W |-> w, H |-> h, Slices |-> 1, Batch |-> 1]
       /\ dst_' = [W |-> 1, H |-> 1, Slices |-> 1, Batch |-> 1]
  /\ bind_result' = [status |-> "none", calls |-> << >>, rejected |-> {},
                     old |-> None]
  /\ grid_size' = None
  /\ UNCHANGED <<device, stage, definition_, work_group_size_, code_, args_,
                 queue, wg, dst_data, dst_log>>

\* Mean::BindArguments on such a tensor: total_size is one of the outcomes
\* of line 123, inv_multiplier_1 the quotient size_0 / total_size (kept as
\* the pair, the denominator possibly wider than 32 bits)
BindArgumentsWide(rejected) ==
  /\ stage = "idle"
  /\ src_ # None
  /\ \E total_size \in TotalSizeOutcomes(src_) :
       LET size_0 == work_group_size_.x * work_group_size_.y
           r1 == SetFloat(args_, "inv_multiplier_1",
                          [num |-> size_0, den |-> total_size], rejected)
           r2 == SetFloat(r1.args, "inv_multiplier_2",
                          [num |-> 1, den |-> IntTotal(size_0)], rejected)
       IN /\ args_' = IF r1.ok THEN r2.args ELSE r1.args
          /\ bind_result' =
               [status |-> IF r1.ok /\ r2.ok THEN "ok" ELSE "error",
                calls |-> IF r1.ok THEN <<"inv_multiplier_1", "inv_multiplier_2">>
                          ELSE <<"inv_multiplier_1">>,
                rejected |-> rejected, old |-> args_, total_size |-> total_size]
  /\ UNCHANGED <<device, stage, definition_, work_group_size_, code_, src_, dst_,
                 grid_size, queue, wg, dst_data, dst_log>>

\* ------------------------------------------------------ Mean::GetGridSize
\* mutant of line 134: the batch left out of grid_z
GridSizeNoBatch(work_group_size, dst) ==
  int3(work_group_size.x, work_group_size.y, dst.Slices)

GridSize(work_group_size, dst) ==
  LET grid_x == work_group_size.x
      grid_y == work_group_size.y
      grid_z == dst.Slices * dst.Batch
  IN int3(grid_x, grid_y, grid_z)

GetGridSize ==
  /\ stage = "idle"
  /\ dst_ # None
  /\ grid_size = None
  /\ grid_size' = GridSize(work_group_size_, dst_)
  /\ UNCHANGED <<device, stage, definition_, work_group_size_, code_, args_, src_, dst_,
                 bind_result, queue, wg, dst_data, dst_log>>

\* ------------------------------------------------- the kernel, lane by lane
\* A lane is named by its linear position in the workgroup: get_local_id(0)
\* and get_local_id(1) of lane l in a workgroup of width x.
LocalX(work_group_size, lane) == lane % work_group_size.x

LocalY(work_group_size, lane) == lane \div work_group_size.x

\* line 77, with the literal wg_x of the emitted text
LocalId(code, local_x, local_y) == local_y * code.wg_x + local_x

\* get_global_id(2) of the lanes of workgroup id (local z is 0: wz = 1)
GlobalId2(work_group_size, id) == id[3] * work_group_size.z

\* lines 78-86
SliceOf(code, dst, linear_id_2) ==
  IF code.has_batch THEN linear_id_2 \div dst.Batch ELSE linear_id_2

BatchOf(code, dst, linear_id_2) ==
  IF code.has_batch THEN linear_id_2 % dst.Batch ELSE 0

\* mutant of line 87: the test off by one
EarlyExitOffByOne(code, dst, linear_id_2) ==
  SliceOf(code, dst, linear_id_2) > dst.Slices

\* line 87
EarlyExit(code, dst, linear_id_2) == SliceOf(code, dst, linear_id_2) >= dst.Slices

\* mutant of line 91: the inner loop stepping by 1
RECURSIVE RowSumUnitStride(_, _, _, _, _, _)
RowSumUnitStride(code, src, s_x, s_y, S, B) ==
  IF s_x < src.W
  THEN TensorRead(s_x, s_y, S, B) + RowSumUnitStride(code, src, s_x + 1, s_y, S, B)
  ELSE 0

\* lines 91-94: the inner loop from s_x, stride wg_x
RECURSIVE RowSum(_, _, _, _, _, _)
RowSum(code, src, s_x, s_y, S, B) ==
  IF s_x < src.W
  THEN TensorRead(s_x, s_y, S, B) + RowSum(code, src, s_x + code.wg_x, s_y, S, B)
  ELSE 0

\* lines 89-95: the outer loop from s_y, stride wg_y
RECURSIVE LaneSum(_, _, _, _, _, _)
LaneSum(code, src, local_x, s_y, S, B) ==
  IF s_y < src.H
  THEN RowSum(code, src, local_x, s_y, S, B)
       + LaneSum(code, src, local_x, s_y + code.wg_y, S, B)
  ELSE 0

\* lines 88-96: what the lane leaves in accum[local_id]
LaneAccum(code, args, src, local_x, local_y, S, B) ==
  RMul(FromInt(LaneSum(code, src, local_x, local_y, S, B)), args.inv_multiplier_1)

\* a read of local memory; past the array the value is arbitrary
AccumAt(accum, i) == IF i \in DOMAIN accum THEN accum[i] ELSE NaN

\* lines 102-108 for the lane whose local_id is id: the new accum[t]
StepValue(accum, instr, id) ==
  LET t == id * instr.mul
      sum == RAdd(RAdd(AccumAt(accum, t + instr.o1), AccumAt(accum, t + instr.o2)),
                  AccumAt(accum, t + instr.o3))
  IN RAdd(AccumAt(accum, t), sum)

\* lines 111-115: sum after the tail's additions from the i-th on
RECURSIVE TailSum(_, _, _, _)
TailSum(accum, instr, i, sum) ==
  IF i > Len(instr.rest) THEN sum
  ELSE TailSum(accum, instr, i + 1, RAdd(sum, AccumAt(accum, instr.rest[i])))

\* line 116
TailResult(accum, instr, args) ==
  RMul(TailSum(accum, instr, 1, AccumAt(accum, instr.first)), args.inv_multiplier_2)

\* ---------------------------------------------------------------- dispatch
Groups == 0..(NumGroups - 1)

\* the group lane l is scheduled in
GroupOf(lane) == lane % NumGroups

LanesOf(work_group_size, g) ==
  { l \in 0..(work_group_size.x * work_group_size.y - 1) : GroupOf(l) = g }

\* the workgroups of an NDRange: global size over local size, per axis
NumWorkGroups(grid, work_group_size) ==
  int3(grid.x \div work_group_size.x, grid.y \div work_group_size.y,
       grid.z \div work_group_size.z)

WorkGroupId(n, k) == <<k % n.x, (k \div n.x) % n.y, k \div (n.x * n.y)>>

\* the workgroups in the order the device starts them: ascending or descending
LaunchOrder(n, order) ==
  LET count == n.x * n.y * n.z
  IN [i \in 1..count |->
        WorkGroupId(n, IF order = "up" THEN i - 1 ELSE count - i)]

Cells(dst) == { <<s, b>> : s \in 0..(dst.Slices - 1), b \in 0..(dst.Batch - 1) }

\* clEnqueueNDRangeKernel with the grid of GetGridSize and the workgroup of
\* the constructor, once the arguments are bound
Launch(order) ==
  /\ stage = "idle"
  /\ bind_result.status = "ok"
  /\ grid_size # None
  /\ stage' = "running"
  /\ queue' = LaunchOrder(NumWorkGroups(grid_size, work_group_size_), order)
  /\ wg' = None
  /\ dst_data' = [c \in Cells(dst_) |-> NaN]
  /\ dst_log' = [c \in Cells(dst_) |-> [ids |-> {}, lanes |-> {}, values |-> {}]]
  /\ UNCHANGED <<device, definition_, work_group_size_, code_, args_, src_, dst_,
                 bind_result, grid_size>>

\* the same dispatch by a scheduler that rounds the grid's z extent up by
\* extra workgroups
LaunchRounded(order, extra) ==
  /\ stage = "idle"
  /\ bind_result.status = "ok"
  /\ grid_size # None
  /\ stage' = "running"
  /\ queue' = LaunchOrder(NumWorkGroups(int3(grid_size.x, grid_size.y,
                                             grid_size.z + extra * work_group_size_.z),
                                        work_group_size_), order)
  /\ wg' = None
  /\ dst_data' = [c \in Cells(dst_) |-> NaN]
  /\ dst_log' = [c \in Cells(dst_) |-> [ids |-> {}, lanes |-> {}, values |-> {}]]
  /\ UNCHANGED <<device, definition_, work_group_size_, code_, args_, src_, dst_,
                 bind_result, grid_size>>

Finished(w) == \A g \in Groups : w.pc[g] > Len(code_.body)

StartWorkGroup ==
  /\ stage = "running"
  /\ queue # << >>
  /\ IF wg = None THEN TRUE ELSE Finished(wg)
  /\ wg' = [id |-> Head(queue),
            pc |-> [g \in Groups |-> 1],
            ret |-> [g \in Groups |-> FALSE],
            accum |-> [i \in 0..(code_.accum_size - 1) |-> NaN]]
  /\ queue' = Tail(queue)
  /\ UNCHANGED <<dst_data, dst_log>>
  /\ UNCHANGED hostvars

\* mutant of lines 97 and 109: a fence that orders memory but holds no lane
BarrierNoWait(w, p) == TRUE

\* mutant of lines 97 and 109: a barrier that counts a lane only once it has
\* left
BarrierCountsLeavers(w, p) == \A h \in Groups : ~w.ret[h] /\ w.pc[h] > p

\* barrier(CLK_LOCAL_MEM_FENCE) at position p of the body: no lane leaves it
\* before every lane of the workgroup has arrived
BarrierOpen(w, p) == \A h \in Groups : ~w.ret[h] /\ w.pc[h] >= p

\* The next statement group g executes: the first at or after its pc that is
\* no barrier, provided every barrier on the way is open (a group waits at a
\* closed barrier; leaving an open one changes nothing but the group's pc).
RECURSIVE NextInstr(_, _, _)
NextInstr(code, w, p) ==
  IF p > Len(code.body) THEN 0
  ELSE IF code.body[p].op # "barrier" THEN p
  ELSE IF BarrierOpen(w, p) THEN NextInstr(code, w, p + 1)
  ELSE 0

\* group g is about to execute a statement of kind op
At(g, op) ==
  /\ stage = "running"
  /\ wg # None
  /\ NextInstr(code_, wg, wg.pc[g]) # 0
  /\ code_.body[NextInstr(code_, wg, wg.pc[g])].op = op

\* lines 75-96, the lanes of group g in lock step
Accumulate(g) ==
  /\ At(g, "accumulate")
  /\ LET p == NextInstr(code_, wg, wg.pc[g])
         z == GlobalId2(work_group_size_, wg.id)
         S == SliceOf(code_, dst_, z)
         B == BatchOf(code_, dst_, z)
     IN IF EarlyExit(code_, dst_, z)
        THEN wg' = [wg EXCEPT !.pc[g] = Len(code_.body) + 1, !.ret[g] = TRUE]
        ELSE wg' = [wg EXCEPT
               !.pc[g] = p + 1,
               !.accum = [i \in DOMAIN wg.accum |->
                  IF GroupOf(i) = g
                  THEN LaneAccum(code_, args_, src_,
                                 LocalX(work_group_size_, i),
                                 LocalY(work_group_size_, i), S, B)
                  ELSE wg.accum[i]]]
  /\ UNCHANGED <<queue, dst_data, dst_log>>
  /\ UNCHANGED hostvars

\* lines 102-108, the lanes of group g in lock step: every active lane reads,
\* then every active lane writes its accum[t]
TreeStep(g) ==
  /\ At(g, "step")
  /\ LET p == NextInstr(code_, wg, wg.pc[g])
         instr == code_.body[p]
     IN wg' = [wg EXCEPT
          !.pc[g] = p + 1,
          !.accum = [i \in DOMAIN wg.accum |->
             IF /\ i % instr.mul = 0
                /\ (i \div instr.mul) < instr.limit
                /\ GroupOf(i \div instr.mul) = g
             THEN StepValue(wg.accum, instr, i \div instr.mul)
             ELSE wg.accum[i]]]
  /\ UNCHANGED <<queue, dst_data, dst_log>>
  /\ UNCHANGED hostvars

\* mutant of lines 111-117: the tail guarded by local_id == 0
TailLanesLane0(work_group_size, g) == LanesOf(work_group_size, g) \cap {0}

\* lines 111-117 carry no guard on local_id: the lanes of group g that
\* execute them
TailLanes(work_group_size, g) == LanesOf(work_group_size, g)

\* lines 111-117, the lanes of group g in lock step
SerialTail(g) ==
  /\ At(g, "tail")
  /\ LET p == NextInstr(code_, wg, wg.pc[g])
         instr == code_.body[p]
         z == GlobalId2(work_group_size_, wg.id)
         c == <<SliceOf(code_, dst_, z), BatchOf(code_, dst_, z)>>
         result == TailResult(wg.accum, instr, args_)
     IN /\ wg' = [wg EXCEPT !.pc[g] = p + 1]
        /\ IF c \in DOMAIN dst_data /\ TailLanes(work_group_size_, g) # {}
           THEN /\ dst_data' = [dst_data EXCEPT ![c] = result]
                /\ dst_log' = [dst_log EXCEPT ![c] =
                     [ids |-> @.ids \cup {wg.id},
                      lanes |-> @.lanes \cup TailLanes(work_group_size_, g),
                      values |-> @.values \cup {result}]]
           ELSE UNCHANGED <<dst_data, dst_log>>
  /\ UNCHANGED queue
  /\ UNCHANGED hostvars

\* the dispatch is over: the framework takes the results
Finish ==
  /\ stage = "running"
  /\ queue = << >>
  /\ wg # None
  /\ Finished(wg)
  /\ stage' = "idle"
  /\ wg' = None
  /\ dst_data' = << >>
  /\ dst_log' = << >>
  /\ UNCHANGED <<device, queue, definition_, work_group_size_, code_, args_, src_,
                 dst_, bind_result, grid_size>>

\* ----------------------------------------------------------- specification
\* one operation, its tensors bound once, dispatched any number of times
Next ==
  \/ \E d \in OperationDefs, i \in DeviceInfos : Construct(d, i)
  \/ src_ = None /\ SetTensors
  \/ \E r \in SUBSET {"inv_multiplier_1", "inv_multiplier_2"} : BindArguments(r)
  \/ GetGridSize
  \/ \E o \in {"up", "down"} : Launch(o)
  \/ StartWorkGroup
  \/ \E g \in Groups : Accumulate(g)
  \/ \E g \in Groups : TreeStep(g)
  \/ \E g \in Groups : SerialTail(g)
  \/ Finish

Spec == Init /\ [][Next]_vars

\* the host calls alone, in any order, the tensors rebound at will
HostNext ==
  \/ \E d \in OperationDefs, i \in DeviceInfos : Construct(d, i)
  \/ SetTensors
  \/ \E r \in SUBSET {"inv_multiplier_1", "inv_multiplier_2"} : BindArguments(r)
  \/ GetGridSize

HostSpec == Init /\ [][HostNext]_vars

\* the operation dispatched over a grid rounded up along z
RoundedNext ==
  \/ \E d \in OperationDefs, i \in DeviceInfos : Construct(d, i)
  \/ src_ = None /\ SetTensors
  \/ BindArguments({})
  \/ GetGridSize
  \/ \E o \in {"up", "down"}, e \in 0..MaxExtraZ : LaunchRounded(o, e)
  \/ StartWorkGroup
  \/ \E g \in Groups : Accumulate(g)
  \/ \E g \in Groups : TreeStep(g)
  \/ \E g \in Groups : SerialTail(g)
  \/ Finish

RoundedSpec == Init /\ [][RoundedNext]_vars

\* the host calls on a tensor of any extents, bound once
WideNext ==
  \/ \E d \in OperationDefs, i \in DeviceInfos : Construct(d, i)
  \/ src_ = None /\ SetWideTensors
  \/ \E r \in SUBSET {"inv_multiplier_1", "inv_multiplier_2"} : BindArgumentsWide(r)
  \/ GetGridSize

WideSpec == Init /\ [][WideNext]_vars

\* the lanes of group g can execute their next statement: the enabling
\* condition of Accumulate(g), TreeStep(g) and SerialTail(g)
Ready(g) ==
  IF stage = "running" /\ wg # None
  THEN NextInstr(code_, wg, wg.pc[g]) # 0
  ELSE FALSE

\* a statement of the lanes of group g
LaneStep(g) == Accumulate(g) \/ TreeStep(g) \/ SerialTail(g)

\* the same under fair scheduling of the lanes: lanes that stay able to
\* execute their next statement eventually execute it (weak fairness of
\* LaneStep(g), its enabling condition written out as Ready(g))
LiveSpec ==
  /\ Init
  /\ [][RoundedNext]_vars
  /\ \A g \in Groups : []<>(~Ready(g)) \/ []<><<LaneStep(g)>>_vars

\* the planner: construction, for each DeviceInfo in turn
PlannerInit ==
  /\ device \in DeviceInfos
  /\ stage = "new"
  /\ definition_ = None
  /\ work_group_size_ = None
  /\ code_ = None
  /\ args_ = None
  /\ src_ = None
  /\ dst_ = None
  /\ bind_result = [status |-> "none", calls |-> << >>, rejected |-> {}, old |-> None]
  /\ grid_size = None
  /\ queue = << >>
  /\ wg = None
  /\ dst_data = << >>
  /\ dst_log = << >>

PlannerNext == \E d \in OperationDefs : Construct(d, device)

PlannerSpec == PlannerInit /\ [][PlannerNext]_vars

\* the emitter on its own: GetMeanKernelCode applied to any workgroup
\* (wx, wy, 1) with wx * wy a multiple of 4 and at least 16
EmitterWorkGroups ==
  { w \in [x : 1..MaxWorkGroupDim, y : 1..MaxWorkGroupDim, z : {1}] :
      (w.x * w.y) % 4 = 0 /\ w.x * w.y >= 16 }

EmitterInit ==
  /\ device = None
  /\ stage = "new"
  /\ definition_ = None
  /\ work_group_size_ \in EmitterWorkGroups
  /\ code_ = None
  /\ args_ = None
  /\ src_ = None
  /\ dst_ = None
  /\ bind_result = [status |-> "none", calls |-> << >>, rejected |-> {}, old |-> None]
  /\ grid_size = None
  /\ queue = << >>
  /\ wg = None
  /\ dst_data = << >>
  /\ dst_log = << >>

\* line 49 with the workgroup given
EmitKernel(definition) ==
  /\ stage = "new"
  /\ stage' = "idle"
  /\ definition_' = definition
  /\ code_' = GetMeanKernelCode(definition, work_group_size_)
  /\ args_' = [inv_multiplier_1 |-> FromInt(0), inv_multiplier_2 |-> FromInt(0)]
  /\ UNCHANGED <<device, work_group_size_, src_, dst_, bind_result, grid_size, queue,
                 wg, dst_data, dst_log>>

EmitterNext == \E d \in OperationDefs : EmitKernel(d)

EmitterSpec == EmitterInit /\ [][EmitterNext]_vars

\* ------------------------------------------------- what the claims speak of
\* the accum cells lane `lane` reads and writes in statement group instr
AccumReads(code, work_group_size, instr, lane) ==
  LET local_id == LocalId(code, LocalX(work_group_size, lane),
                          LocalY(work_group_size, lane))
  IN IF instr.op = "accumulate" THEN {local_id}
     ELSE IF instr.op = "step"
     THEN IF local_id < instr.limit
          THEN LET t == local_id * instr.mul
               IN {t, t + instr.o1, t + instr.o2, t + instr.o3}
          ELSE {}
     ELSE IF instr.op = "tail"
     THEN {instr.first} \cup {instr.rest[i] : i \in DOMAIN instr.rest}
     ELSE {}

AccumWrites(code, work_group_size, instr, lane) ==
  LET local_id == LocalId(code, LocalX(work_group_size, lane),
                          LocalY(work_group_size, lane))
  IN IF instr.op = "accumulate" THEN {local_id}
     ELSE IF instr.op = "step"
     THEN IF local_id < instr.limit THEN {local_id * instr.mul} ELSE {}
     ELSE {}

GroupReads(p, g) ==
  UNION { AccumReads(code_, work_group_size_, code_.body[p], l) :
            l \in LanesOf(work_group_size_, g) }

GroupWrites(p, g) ==
  UNION { AccumWrites(code_, work_group_size_, code_.body[p], l) :
            l \in LanesOf(work_group_size_, g) }

\* group g has executed the statement group at position p
HasRun(w, g, p) == w.pc[g] > p /\ ~w.ret[g]

Running == stage = "running"

Active == IF stage = "running" THEN wg # None ELSE FALSE

\* every workgroup of the dispatch has finished
DispatchDone ==
  IF stage = "running" /\ queue = << >>
  THEN IF wg # None THEN Finished(wg) ELSE FALSE
  ELSE FALSE

Written(c) == dst_log[c].ids # {}

\* the destination cell the lanes of workgroup id write
CellOf(id) ==
  LET z == GlobalId2(work_group_size_, id)
  IN <<SliceOf(code_, dst_, z), BatchOf(code_, dst_, z)>>

\* the sum of src(sx, sy, S, B) over the cells k, k + 1, ... of the W x H plane
RECURSIVE PlaneSum(_, _, _, _)
PlaneSum(src, k, S, B) ==
  IF k >= src.W * src.H THEN 0
  ELSE TensorRead(k % src.W, k \div src.W, S, B) + PlaneSum(src, k + 1, S, B)

SpatialMean(src, S, B) == Rat(PlaneSum(src, 0, S, B), src.H * src.W)

\* ----------------------------------------------------------------------- C1
\* C1: in exact arithmetic, whatever the workgroup and the shape (H * W
\* smaller than wx * wy included), every value stored at destination slot
\* (0, 0, S) of batch B is the sum of src over the W x H plane of (S, B)
\* divided by H * W; and when the dispatch is over every S < Slices,
\* B < Batch has been stored.
C1_KernelStoresMean ==
  Running =>
    \A c \in DOMAIN dst_data :
      /\ Written(c) => dst_data[c] = SpatialMean(src_, c[1], c[2])
      /\ DispatchDone => Written(c)

C1_Witness ==
  /\ DispatchDone
  /\ src_.W * src_.H < work_group_size_.x * work_group_size_.y
  /\ dst_.Slices > 1
  /\ dst_.Batch > 1
  /\ \A c \in DOMAIN dst_data : dst_data[c] = SpatialMean(src_, c[1], c[2])

\* ----------------------------------------------------------------------- C2
\* the selection table of the planner, first matching row
TableWorkGroup(d) ==
  IF d.vendor = "Adreno" /\ d.adreno_info = "3xx" THEN int3(16, 8, 1)
  ELSE IF d.vendor = "Adreno" THEN int3(16, 16, 1)
  ELSE IF d.vendor = "Mali" /\ d.mali_info \in {"T6xx", "T7xx", "T8xx"}
  THEN int3(8, 4, 1)
  ELSE IF d.vendor = "Mali" THEN int3(8, 8, 1)
  ELSE int3(16, 16, 1)

\* C2: the constructor picks the workgroup of the table's row for the device
\* family, and constructs whatever the DeviceInfo is.
C2_PlannerTable ==
  /\ stage = "new" => ENABLED PlannerNext
  /\ stage # "new" => work_group_size_ = TableWorkGroup(device)

C2_Witness ==
  /\ stage = "idle"
  /\ device.vendor = "Mali"
  /\ device.mali_info = "T8xx"
  /\ device.adreno_info = "3xx"
  /\ work_group_size_ = int3(8, 4, 1)

\* ----------------------------------------------------------------------- C3
\* C3: for every DeviceInfo the constructed workgroup has (wx * wy) mod 4 = 0
\* and wz = 1.
C3_WorkGroupInvariants ==
  stage # "new" =>
    /\ (work_group_size_.x * work_group_size_.y) % 4 = 0
    /\ work_group_size_.z = 1

C3_Witness ==
  /\ stage = "idle"
  /\ device.vendor = "Unknown"
  /\ work_group_size_.x * work_group_size_.y = 256
  /\ work_group_size_.z = 1

\* ----------------------------------------------------------------------- C4
BoundOk == stage = "idle" /\ bind_result.status = "ok"

\* C4: after a BindArguments that returned ok, inv_multiplier_1 is
\* 1 / ((H * W) / (wx * wy)) with the division untruncated, inv_multiplier_2
\* is 1 / (wx * wy), and their product is 1 / (H * W).
C4_NormalizationIdentity ==
  BoundOk =>
    LET n == work_group_size_.x * work_group_size_.y
        hw == src_.H * src_.W
    IN /\ args_.inv_multiplier_1 = Rat(n, hw)
       /\ args_.inv_multiplier_2 = Rat(1, n)
       /\ RMul(args_.inv_multiplier_1, args_.inv_multiplier_2) = Rat(1, hw)

C4_Witness ==
  /\ BoundOk
  /\ (src_.H * src_.W) % (work_group_size_.x * work_group_size_.y) # 0
  /\ src_.H * src_.W > work_group_size_.x * work_group_size_.y
  /\ RMul(args_.inv_multiplier_1, args_.inv_multiplier_2) = Rat(1, src_.H * src_.W)

\* ----------------------------------------------------------------------- C5
CeilRatio(a, b) == (a + b - 1) \div b

\* C5 as stated: inv_multiplier_1 = 1 / ceil_ratio(H * W, wx * wy).
C5_CeilRatio ==
  BoundOk =>
    args_.inv_multiplier_1 =
      Rat(1, CeilRatio(src_.H * src_.W, work_group_size_.x * work_group_size_.y))

\* C5 as amended: inv_multiplier_1 is (wx * wy) / (H * W), the reciprocal of
\* the untruncated quotient; it is 1 / ceil_ratio(H * W, wx * wy) exactly
\* when wx * wy divides H * W, and is larger otherwise.
C5_UntruncatedRatio ==
  BoundOk =>
    LET n == work_group_size_.x * work_group_size_.y
        hw == src_.H * src_.W
        m1 == args_.inv_multiplier_1
    IN /\ IsNum(m1)
       /\ m1[1] * hw = m1[2] * n
       /\ (m1 = Rat(1, CeilRatio(hw, n))) <=> (hw % n = 0)
       /\ hw % n # 0 => m1[1] * CeilRatio(hw, n) > m1[2]

C5_Witness ==
  /\ BoundOk
  /\ src_.H * src_.W = 1
  /\ args_.inv_multiplier_1 = FromInt(work_group_size_.x * work_group_size_.y)

\* ----------------------------------------------------------------------- C6
\* C6: GetGridSize returns (wx, wy, Slices * Batch), so the dispatch has one
\* workgroup per z; every destination cell (S, B) is written by the lanes of
\* one workgroup only, that of z = S * Batch + B, and once the dispatch is
\* over every cell has been written.
C6_GridCoverage ==
  /\ (stage # "new" /\ grid_size # None) =>
       grid_size = int3(work_group_size_.x, work_group_size_.y,
                        dst_.Slices * dst_.Batch)
  /\ Running =>
       /\ NumWorkGroups(grid_size, work_group_size_) =
            int3(1, 1, dst_.Slices * dst_.Batch)
       /\ \A c \in DOMAIN dst_log :
            /\ dst_log[c].ids \subseteq {<<0, 0, c[1] * dst_.Batch + c[2]>>}
            /\ DispatchDone => Cardinality(dst_log[c].ids) = 1

C6_Witness ==
  /\ DispatchDone
  /\ code_.has_batch
  /\ dst_.Slices = 2
  /\ dst_.Batch = 2
  /\ \A c \in DOMAIN dst_log : Cardinality(dst_log[c].ids) = 1

\* ----------------------------------------------------------------------- C7
\* C7: whenever a lane has executed a statement that reads an accum cell
\* which a lane of another group writes in an earlier statement, that write
\* has been executed and a barrier of the emitted text lies between the two
\* statements: the scaled partial sums are written before a tree step or the
\* tail reads them, a tree step's write-backs before the next step or the
\* tail reads them.
C7_BarrierBetweenPhases ==
  Active =>
    \A g \in Groups, h \in Groups :
      \A b \in 1..Len(code_.body), a \in 1..Len(code_.body) :
        (/\ g # h
         /\ a < b
         /\ HasRun(wg, g, b)
         /\ GroupWrites(a, h) \cap GroupReads(b, g) # {})
        => /\ HasRun(wg, h, a)
           /\ \E k \in (a + 1)..(b - 1) : code_.body[k].op = "barrier"

C7_Witness ==
  /\ Active
  /\ Len(code_.body) = 7
  /\ HasRun(wg, 0, 5)
  /\ ~HasRun(wg, 1, 5)
  /\ GroupWrites(3, 1) \cap GroupReads(5, 0) # {}
  /\ HasRun(wg, 1, 3)

\* ----------------------------------------------------------------------- C8
\* C8 as stated: the lane that runs the serial tail and writes the
\* destination is lane 0 and no other.
C8_TailOnLane0 ==
  Running => \A c \in DOMAIN dst_log : dst_log[c].lanes \subseteq {0}

\* C8 as amended: the emitted tail carries no guard on local_id, so every
\* lane of the workgroup runs it: the lanes that have written destination
\* slot (0, 0, S) are the lanes that are past the tail, all of them once the
\* workgroup has finished, and all of them write the same value.
C8_EveryLaneRunsTail ==
  Active =>
    LET c == CellOf(wg.id)
        n == work_group_size_.x * work_group_size_.y
    IN /\ c \in DOMAIN dst_log
       /\ dst_log[c].lanes =
            { l \in 0..(n - 1) : HasRun(wg, GroupOf(l), Len(code_.body)) }
       /\ Finished(wg) => dst_log[c].lanes = 0..(n - 1)
       /\ Written(c) => dst_log[c].values = {dst_data[c]}

C8_Witness ==
  /\ Active
  /\ Finished(wg)
  /\ work_group_size_.x * work_group_size_.y = 256
  /\ dst_log[CellOf(wg.id)].lanes = 0..255

\* ----------------------------------------------------------------------- C9
\* the kernel run by all the lanes of workgroup id in lock step, statement by
\* statement: the value it stores
RECURSIVE LockstepFrom(_, _, _)
LockstepFrom(id, p, accum) ==
  LET instr == code_.body[p]
      z == GlobalId2(work_group_size_, id)
      S == SliceOf(code_, dst_, z)
      B == BatchOf(code_, dst_, z)
  IN IF instr.op = "accumulate"
     THEN LockstepFrom(id, p + 1,
            [i \in DOMAIN accum |->
               LaneAccum(code_, args_, src_, LocalX(work_group_size_, i),
                         LocalY(work_group_size_, i), S, B)])
     ELSE IF instr.op = "step"
     THEN LockstepFrom(id, p + 1,
            [i \in DOMAIN accum |->
               IF i % instr.mul = 0 /\ (i \div instr.mul) < instr.limit
               THEN StepValue(accum, instr, i \div instr.mul)
               ELSE accum[i]])
     ELSE IF instr.op = "tail" THEN TailResult(accum, instr, args_)
     ELSE LockstepFrom(id, p + 1, accum)

LockstepResult(id) ==
  LockstepFrom(id, 1, [i \in 0..(code_.accum_size - 1) |-> NaN])

C10_BindErrors ==
  (stage = "idle" /\ bind_result.status # "none") =>
    /\ bind_result.status \in {"ok", "error"}
    /\ bind_result.status = "error" <=> bind_result.rejected # {}
    /\ bind_result.status = "ok" =>
         /\ bind_result.calls = <<"inv_multiplier_1", "inv_multiplier_2">>
         /\ args_.inv_multiplier_1 = InvMultiplier1(src_, work_group_size_)
         /\ args_.inv_multiplier_2 = InvMultiplier2(work_group_size_)
    /\ "inv_multiplier_1" \in bind_result.rejected =>
         bind_result.calls = <<"inv_multiplier_1">>
    /\ "inv_multiplier_1" \notin bind_result.rejected =>
         bind_result.calls = <<"inv_multiplier_1", "inv_multiplier_2">>

C10_Witness ==
  /\ stage = "idle"
  /\ bind_result.status = "error"
  /\ bind_result.rejected = {"inv_multiplier_1", "inv_multiplier_2"}
  /\ bind_result.calls = <<"inv_multiplier_1">>
  /\ args_.inv_multiplier_2 = FromInt(0)

\* ---------------------------------------------------------------------- C11
\* C11: once constructed, no call of BindArguments or GetGridSize and no
\* rebinding of the tensors changes the workgroup or the emitted kernel; and
\* after each BindArguments that returned ok the two scalars are those of
\* the H and W of the source tensor bound now, whatever an earlier call left
\* in the table.
C11_FrameAndRebinding ==
  /\ [][stage # "new" =>
          /\ stage' # "new"
          /\ work_group_size_' = work_group_size_
          /\ code_' = code_
          /\ definition_' = definition_]_vars
  /\ [](BoundOk =>
          /\ args_.inv_multiplier_1 =
               Rat(work_group_size_.x * work_group_size_.y, src_.W * src_.H)
          /\ args_.inv_multiplier_2 =
               Rat(1, work_group_size_.x * work_group_size_.y))

\* a call that found the scalar of an earlier, different shape in the table
C11_Witness ==
  /\ BoundOk
  /\ grid_size # None
  /\ bind_result.old.inv_multiplier_1 # FromInt(0)
  /\ bind_result.old.inv_multiplier_1 # args_.inv_multiplier_1
  /\ args_.inv_multiplier_1 =
       Rat(work_group_size_.x * work_group_size_.y, src_.W * src_.H)

\* ---------------------------------------------------------------------- C12
\* mutant of line 91: the inner loop stepping by 1
RECURSIVE RowCellsUnitStride(_, _, _, _)
RowCellsUnitStride(code, src, s_x, s_y) ==
  IF s_x < src.W
  THEN << <<s_x, s_y>> >> \o RowCellsUnitStride(code, src, s_x + 1, s_y)
  ELSE << >>

\* lines 91-94: the cells the inner loop reads, in order
RECURSIVE RowCells(_, _, _, _)
RowCells(code, src, s_x, s_y) ==
  IF s_x < src.W
  THEN << <<s_x, s_y>> >> \o RowCells(code, src, s_x + code.wg_x, s_y)
  ELSE << >>

\* lines 89-95: the cells the two loops of a lane read, in order
RECURSIVE LaneCells(_, _, _, _)
LaneCells(code, src, local_x, s_y) ==
  IF s_y < src.H
  THEN RowCells(code, src, local_x, s_y)
       \o LaneCells(code, src, local_x, s_y + code.wg_y)
  ELSE << >>

\* the sum of the source over a list of cells, from the i-th on
RECURSIVE ReadSum(_, _, _, _)
ReadSum(cells, i, S, B) ==
  IF i > Len(cells) THEN 0
  ELSE TensorRead(cells[i][1], cells[i][2], S, B) + ReadSum(cells, i + 1, S, B)

\* the number of cells the lanes lo..hi of the workgroup read
RECURSIVE CellCount(_, _, _, _, _)
CellCount(code, src, work_group_size, lo, hi) ==
  IF lo > hi THEN 0
  ELSE IF lo = hi
  THEN Len(LaneCells(code, src, LocalX(work_group_size, lo),
                     LocalY(work_group_size, lo)))
  ELSE CellCount(code, src, work_group_size, lo, (lo + hi) \div 2)
       + CellCount(code, src, work_group_size, (lo + hi) \div 2 + 1, hi)

\* the lanes of group g have executed the accumulation, and no lane of the
\* workgroup a statement after it
JustAccumulated(g) ==
  IF Active
  THEN ~wg.ret[g] /\ wg.pc[g] = 2 /\ \A h \in Groups : wg.pc[h] <= 2
  ELSE FALSE

\* C12: the cells the loops of a lane read lie inside the W x H extent, are
\* read once each, and are those congruent to (local_x, local_y) modulo
\* (wx, wy); their scaled sum is what the lane leaves in
\* accum[local_y * wx + local_x]; every cell of the extent is read by the
\* lane (sx mod wx, sy mod wy) and by no other, so the lanes read H * W cells
\* in all and inv_multiplier_1 * inv_multiplier_2 * that count = 1.
C12_PartialSumsPartition ==
  \A g \in Groups :
    JustAccumulated(g) =>
      LET wgs == work_group_size_
          z == GlobalId2(wgs, wg.id)
          S == SliceOf(code_, dst_, z)
          B == BatchOf(code_, dst_, z)
          cells(l) == LaneCells(code_, src_, LocalX(wgs, l), LocalY(wgs, l))
          count == CellCount(code_, src_, wgs, 0, wgs.x * wgs.y - 1)
      IN /\ \A l \in 0..(wgs.x * wgs.y - 1) :
              LET cs == cells(l)
              IN /\ \A i \in 1..Len(cs) :
                      /\ cs[i][1] \in 0..(src_.W - 1)
                      /\ cs[i][2] \in 0..(src_.H - 1)
                      /\ cs[i][1] % wgs.x = LocalX(wgs, l)
                      /\ cs[i][2] % wgs.y = LocalY(wgs, l)
                      /\ \A j \in 1..Len(cs) : cs[j] = cs[i] => j = i
                 /\ GroupOf(l) = g =>
                      /\ AccumWrites(code_, wgs, code_.body[1], l)
                           = {LocalY(wgs, l) * wgs.x + LocalX(wgs, l)}
                      /\ wg.accum[LocalY(wgs, l) * wgs.x + LocalX(wgs, l)] =
                           RMul(FromInt(ReadSum(cs, 1, S, B)), args_.inv_multiplier_1)
         /\ \A sx \in 0..(src_.W - 1), sy \in 0..(src_.H - 1) :
              LET cs == cells((sy % wgs.y) * wgs.x + (sx % wgs.x))
              IN \E i \in 1..Len(cs) : cs[i] = <<sx, sy>>
         /\ count = src_.H * src_.W
         /\ RMul(RMul(args_.inv_multiplier_1, args_.inv_multiplier_2), FromInt(count))
              = FromInt(1)

\* lane 0 read four cells, most lanes one: the extent one past the workgroup
C12_Witness ==
  /\ JustAccumulated(0)
  /\ src_.W = work_group_size_.x + 1
  /\ src_.H = work_group_size_.y + 1
  /\ LaneCells(code_, src_, 0, 0) =
       << <<0, 0>>, <<work_group_size_.x, 0>>, <<0, work_group_size_.y>>,
          <<work_group_size_.x, work_group_size_.y>> >>
  /\ Len(LaneCells(code_, src_, 1, 1)) = 1

\* ---------------------------------------------------------------------- C13
\* The kernel run on names instead of values: accum[i] is the list of the
\* lanes whose scaled partial sum has been added into it, after the first p
\* statement groups of the body run by all the lanes in lock step.
SymAt(acc, i) == IF i \in DOMAIN acc THEN acc[i] ELSE << -1 >>

RECURSIVE SymAfter(_, _)
SymAfter(code, p) ==
  IF p = 0 THEN [i \in 0..(code.accum_size - 1) |-> << >>]
  ELSE LET acc == SymAfter(code, p - 1)
           instr == code.body[p]
       IN IF instr.op = "accumulate" THEN [i \in DOMAIN acc |-> << i >>]
          ELSE IF instr.op = "step"
          THEN [i \in DOMAIN acc |->
                  IF i % instr.mul = 0 /\ (i \div instr.mul) < instr.limit
                  THEN SymAt(acc, i) \o SymAt(acc, i + instr.o1)
                       \o SymAt(acc, i + instr.o2) \o SymAt(acc, i + instr.o3)
                  ELSE acc[i]]
          ELSE acc

\* the lanes added into sum by the tail's additions from the i-th on
RECURSIVE SymTail(_, _, _)
SymTail(acc, instr, i) ==
  IF i > Len(instr.rest) THEN << >>
  ELSE SymAt(acc, instr.rest[i]) \o SymTail(acc, instr, i + 1)

SymResult(code) ==
  LET acc == SymAfter(code, Len(code.body) - 1)
      instr == code.body[Len(code.body)]
  IN SymAt(acc, instr.first) \o SymTail(acc, instr, 1)

\* the number of tree steps among the first p statement groups
StepsUpTo(code, p) == Cardinality({ q \in 1..p : code.body[q].op = "step" })

RECURSIVE Pow4(_)
Pow4(k) == IF k = 0 THEN 1 ELSE 4 * Pow4(k - 1)

\* the sum of the values f[lo], ..., f[hi]
RECURSIVE RangeSum(_, _, _)
RangeSum(f, lo, hi) ==
  IF lo > hi THEN FromInt(0)
  ELSE IF lo = hi THEN f[lo]
  ELSE RAdd(RangeSum(f, lo, (lo + hi) \div 2), RangeSum(f, (lo + hi) \div 2 + 1, hi))

\* every lane has executed the statement group at p, none a later one that
\* writes accum
SettledAt(w, p) ==
  /\ \A g \in Groups : HasRun(w, g, p)
  /\ \A g \in Groups, q \in (p + 1)..Len(code_.body) :
       code_.body[q].op = "step" => ~HasRun(w, g, q)

\* the scaled partial sum of each lane of workgroup id
Partials(id) ==
  LET z == GlobalId2(work_group_size_, id)
      S == SliceOf(code_, dst_, z)
      B == BatchOf(code_, dst_, z)
  IN [j \in 0..(code_.accum_size - 1) |->
        LaneAccum(code_, args_, src_, LocalX(work_group_size_, j),
                  LocalY(work_group_size_, j), S, B)]

\* C13: once every lane has executed the k-th tree step (k = 0: the
\* accumulation), accum[i * 4^k] holds the sum of the scaled partial sums of
\* the lanes i * 4^k .. (i + 1) * 4^k - 1, each once, for every i < N / 4^k;
\* the tail reads accum at 0, offset, ..., (final_rem - 1) * offset with
\* offset = 4^(number of steps) and final_rem * offset = N; so the tail's sum
\* is the sum of the N scaled partial sums, each counted once.
C13_TreeAndTailCoverAll ==
  Active =>
    LET N == work_group_size_.x * work_group_size_.y
        last == Len(code_.body)
        tail == code_.body[last]
        final_rem == Len(tail.rest) + 1
        offset == Pow4(StepsUpTo(code_, last))
        part == Partials(wg.id)
        result == SymResult(code_)
    IN /\ tail.op = "tail"
       /\ final_rem * offset = N
       /\ tail.first = 0
       /\ \A i \in 1..(final_rem - 1) : tail.rest[i] = i * offset
       /\ Len(result) = N
       /\ { result[i] : i \in 1..Len(result) } = 0..(N - 1)
       /\ \A p \in 1..(last - 1) :
            (code_.body[p].op # "barrier" /\ SettledAt(wg, p)) =>
              LET w == Pow4(StepsUpTo(code_, p))
                  sym == SymAfter(code_, p)
              IN \A i \in 0..((N \div w) - 1) :
                   /\ Len(sym[i * w]) = w
                   /\ { sym[i * w][j] : j \in 1..w } = (i * w)..((i + 1) * w - 1)
                   /\ wg.accum[i * w] = RangeSum(part, i * w, (i + 1) * w - 1)
       /\ \A g \in Groups :
            HasRun(wg, g, last) =>
              dst_data[CellOf(wg.id)] =
                RMul(RangeSum(part, 0, N - 1), args_.inv_multiplier_2)

\* the 16 x 16 workgroup after its second and last tree step: sixteen cells
\* of sixteen lanes each, which the tail adds up
C13_Witness ==
  /\ Active
  /\ work_group_size_.x * work_group_size_.y = 256
  /\ StepsUpTo(code_, Len(code_.body)) = 2
  /\ SettledAt(wg, 5)
  /\ ~HasRun(wg, 0, Len(code_.body))
  /\ src_.W > work_group_size_.x
  /\ wg.accum[240] = RangeSum(Partials(wg.id), 240, 255)
  /\ Len(code_.body[Len(code_.body)].rest) = 15

\* ---------------------------------------------------------------------- C14
\* the tail's sum holds every accum cell's lane once
Covers(code) ==
  LET result == SymResult(code)
  IN /\ Len(result) = code.accum_size
     /\ { result[i] : i \in 1..Len(result) } = 0..(code.accum_size - 1)

\* C14: for every workgroup (wx, wy, 1) with wx * wy a multiple of 4 and at
\* least 16, the emitted steps and tail add every accum cell into the final
\* sum exactly once.
C14_InvariantsSufficient ==
  stage = "idle" => Covers(code_)

\* ---------------------------------------------------------------------- C15
\* C15: for every device family the constructed workgroup has N >= 32
\* lanes; started at reminder = N / 4, offset = 1 the emitter's loop emits at
\* least one tree step, exits with reminder in 2..7, and every step it emits
\* has at least 8 active lanes (its limit, the reminder it was emitted for).
C15_LoopShape ==
  stage # "new" =>
    LET N == work_group_size_.x * work_group_size_.y
        exit == LoopExit(N \div 4, 1)
        steps == { p \in 1..Len(code_.body) : code_.body[p].op = "step" }
    IN /\ N >= 32
       /\ steps # {}
       /\ exit[1] \in 2..7
       /\ exit[2] = Pow4(Cardinality(steps))
       /\ \A p \in steps : code_.body[p].limit >= 8
       /\ \A p \in steps : code_.body[p].limit * code_.body[p].mul = N
       /\ Len(code_.body[Len(code_.body)].rest) + 1 = 4 * exit[1]

\* the smallest workgroup of the table: one step of 8 lanes, exit at 2
C15_Witness ==
  /\ stage = "idle"
  /\ device.vendor = "Mali"
  /\ work_group_size_.x * work_group_size_.y = 32
  /\ StepsUpTo(code_, Len(code_.body)) = 1
  /\ code_.body[3].limit = 8
  /\ LoopExit(8, 1) = <<2, 4>>

\* ---------------------------------------------------------------------- C16
\* the workgroup in execution has S >= Slices
Surplus ==
  IF Active
  THEN SliceOf(code_, dst_, GlobalId2(work_group_size_, wg.id)) >= dst_.Slices
  ELSE FALSE

\* C16: in a workgroup whose S is Slices or more (the grid rounded up along
\* z), every lane returns at line 87: it executes no statement after it, so
\* accum is left as it was found, no barrier is passed and the destination
\* is not written; no step of such a workgroup changes accum or the
\* destination, and the destination's cells are written by the other
\* workgroups only.
C16_SurplusWorkGroupExits ==
  /\ [](Surplus =>
          /\ \A g \in Groups :
               /\ wg.pc[g] \in {1, Len(code_.body) + 1}
               /\ wg.pc[g] > 1 => wg.ret[g]
               /\ \A p \in 1..Len(code_.body) : ~HasRun(wg, g, p)
          /\ \A i \in DOMAIN wg.accum : wg.accum[i] = NaN
          /\ CellOf(wg.id) \notin DOMAIN dst_data
          /\ \A c \in DOMAIN dst_log : wg.id \notin dst_log[c].ids)
  /\ [][(Surplus /\ stage' = "running" /\ queue' = queue) =>
          /\ wg'.accum = wg.accum
          /\ dst_data' = dst_data
          /\ dst_log' = dst_log]_vars

\* a surplus workgroup of a batched dispatch, all its lanes returned
C16_Witness ==
  /\ Surplus
  /\ Finished(wg)
  /\ \A g \in Groups : wg.ret[g]
  /\ code_.has_batch
  /\ dst_.Batch = 2
  /\ wg.id[3] = dst_.Slices * dst_.Batch
  /\ \E c \in DOMAIN dst_log : Written(c)

\* ---------------------------------------------------------------------- C17
\* C17: for every W and H that are non-negative 32-bit ints, the total_size
\* BindArguments divides by wx * wy is the mathematical product W * H.
C17_TotalWithoutLoss ==
  (stage = "idle" /\ bind_result.status = "ok") =>
    LET exact == LongMul(ToLimbs(src_.W), ToLimbs(src_.H))
        total_size == bind_result.total_size
    IN IF total_size.wide THEN total_size.limbs = exact
       ELSE total_size.int >= 0 /\ ToLimbs(total_size.int) = exact

\* ---------------------------------------------------------------------- C18
\* the positions of the barriers in the emitted body
Barriers(code) == { p \in 1..Len(code.body) : code.body[p].op = "barrier" }

\* some lane of the workgroup can execute its next statement
CanStep == \E g \in Groups : Ready(g)

\* C18: in a workgroup either every lane returns at line 87 or none does;
\* the body has 1 + (number of tree steps) barriers, none inside a branch,
\* and a lane that has not returned is past a barrier only once every lane
\* of the workgroup has reached it; a workgroup that has not finished always
\* has a lane that can go on; so, the lanes scheduled fairly, every workgroup
\* that starts finishes.
C18_NoDivergenceAndTermination ==
  /\ [](Active =>
          /\ \A g \in Groups, h \in Groups :
               (wg.ret[g] /\ wg.pc[h] > 1) => wg.ret[h]
          /\ (\E g \in Groups : wg.ret[g]) <=>
               (Surplus /\ \E g \in Groups : wg.pc[g] > 1)
          /\ Cardinality(Barriers(code_)) = 1 + StepsUpTo(code_, Len(code_.body))
          /\ \A g \in Groups, p \in Barriers(code_) :
               (~wg.ret[g] /\ wg.pc[g] > p) =>
                 \A h \in Groups : ~wg.ret[h] /\ wg.pc[h] >= p
          /\ ~Finished(wg) => CanStep)
  /\ Active ~> (Active /\ Finished(wg))

\* a lane group waiting at the second barrier for the other, which is still
\* in the first tree step
C18_Witness ==
  /\ Active
  /\ ~Surplus
  /\ wg.pc[0] = 4
  /\ wg.pc[1] = 2
  /\ ~Ready(0)
  /\ Ready(1)
  /\ At(1, "step")

\* ---------------------------------------------------------------------- C19
\* the accum cells a lane reads or writes in a statement group
Touches(code, work_group_size, instr, lane) ==
  AccumReads(code, work_group_size, instr, lane)
  \cup AccumWrites(code, work_group_size, instr, lane)

\* the number of (lane, cell) pairs with the lane in lo..hi touching the cell
RECURSIVE TouchCount(_, _, _, _, _)
TouchCount(code, work_group_size, instr, lo, hi) ==
  IF lo > hi THEN 0
  ELSE IF lo = hi THEN Cardinality(Touches(code, work_group_size, instr, lo))
  ELSE TouchCount(code, work_group_size, instr, lo, (lo + hi) \div 2)
       + TouchCount(code, work_group_size, instr, (lo + hi) \div 2 + 1, hi)

\* in the phase of the statement group at p (the barriers around it are the
\* phase's bounds), no cell a lane writes is touched by another lane
PhaseRaceFree(code, work_group_size, p) ==
  LET instr == code.body[p]
      lanes == 0..(work_group_size.x * work_group_size.y - 1)
      written == UNION { AccumWrites(code, work_group_size, instr, l) : l \in lanes }
      touched == UNION { Touches(code, work_group_size, instr, l) : l \in lanes }
  IN /\ written # {} =>
          Cardinality(touched)
            = TouchCount(code, work_group_size, instr, 0,
                         work_group_size.x * work_group_size.y - 1)
     /\ instr.op = "accumulate" =>
          \A l \in lanes : Touches(code, work_group_size, instr, l) = {l}
     /\ instr.op = "step" =>
          \A l \in lanes :
            Touches(code, work_group_size, instr, l) =
              IF l < instr.limit
              THEN { l * instr.mul + j * instr.o1 : j \in 0..3 }
              ELSE {}
     /\ instr.op = "tail" => written = {}

\* C19: in the phase a lane group is in (the statement it is about to
\* execute, between two barriers), the accum cells touched by distinct lanes
\* that write are pairwise disjoint: lane local_id touches accum[local_id]
\* alone in the accumulation, the four cells t, t + offset, t + 2 * offset,
\* t + 3 * offset in a tree step, and the tail writes no cell; each phase
\* holds one statement group only; and a step of a lane group changes no
\* accum cell but those its lanes write.
C19_IntraPhaseRaceFree ==
  /\ [](Active =>
          /\ \A p \in 1..(Len(code_.body) - 1) :
               code_.body[p].op # "barrier" => code_.body[p + 1].op = "barrier"
          /\ \A g \in Groups :
               Ready(g) =>
                 PhaseRaceFree(code_, work_group_size_,
                               NextInstr(code_, wg, wg.pc[g])))
  /\ [][\A g \in Groups :
          (Ready(g) /\ stage' = "running" /\ queue' = queue
             /\ wg'.pc[g] # wg.pc[g]) =>
            { i \in DOMAIN wg.accum : wg'.accum[i] # wg.accum[i] }
              \subseteq GroupWrites(NextInstr(code_, wg, wg.pc[g]), g)]_vars

\* both lane groups in the second tree step's phase, one has executed it
C19_Witness ==
  /\ Active
  /\ code_.body[5].op = "step"
  /\ wg.pc[0] = 6
  /\ wg.pc[1] = 4
  /\ At(1, "step")
  /\ GroupWrites(5, 0) # {}
  /\ GroupWrites(5, 1) # {}
  /\ GroupWrites(5, 0) \cap (GroupReads(5, 1) \cup GroupWrites(5, 1)) = {}

\* ---------------------------------------------------------------------- C20
\* C20: accum is declared with wx * wy cells, and every index a lane uses in
\* the statement group it is about to execute (local_id in the
\* accumulation, t + j * offset in a tree step, offset * i in the tail) lies
\* in 0 .. wx * wy - 1; so no statement executed has read a cell outside the
\* array: the cells written and the value stored are numbers.
C20_AccumInBounds ==
  Active =>
    LET N == work_group_size_.x * work_group_size_.y
    IN /\ code_.accum_size = N
       /\ DOMAIN wg.accum = 0..(N - 1)
       /\ \A g \in Groups :
            Ready(g) =>
              LET p == NextInstr(code_, wg, wg.pc[g])
              IN /\ GroupReads(p, g) \subseteq 0..(N - 1)
                 /\ GroupWrites(p, g) \subseteq 0..(N - 1)
                 /\ code_.body[p].op = "step" =>
                      (code_.body[p].limit - 1) * code_.body[p].mul
                        + code_.body[p].o3 = N - code_.body[p].o1
                 /\ code_.body[p].op = "tail" =>
                      /\ code_.body[p].first = 0
                      /\ \A i \in DOMAIN code_.body[p].rest :
                           code_.body[p].rest[i] \in 1..(N - 1)
       /\ \A g \in Groups, p \in 1..Len(code_.body) :
            HasRun(wg, g, p) =>
              /\ \A i \in GroupWrites(p, g) : IsNum(wg.accum[i])
              /\ p = Len(code_.body) => IsNum(dst_data[CellOf(wg.id)])

\* the smallest workgroup: a lane group at the tree step whose lane 7 reads
\* accum[31], the last cell
C20_Witness ==
  /\ Active
  /\ work_group_size_.x * work_group_size_.y = 32
  /\ At(1, "step")
  /\ 31 \in GroupReads(NextInstr(code_, wg, wg.pc[1]), 1)
  /\ 28 \in GroupWrites(NextInstr(code_, wg, wg.pc[1]), 1)
  /\ code_.body[Len(code_.body)].rest[7] = 28

====
